---- MODULE Spec2Model ----
(***************************************************************************)
(* Model of the renewal-notification scan (app/notifications.py) and of    *)
(* the OTP password-reset flow (app/auth.py, app/main.py) of the           *)
(* subscription manager backend, over a MongoDB-style document store.      *)
(*                                                                         *)
(* Time is counted in minutes since an arbitrary midnight (UTC).           *)
(***************************************************************************)
EXTENDS Integers, Sequences, FiniteSets, TLC

VARIABLES
    now,              \* datetime.utcnow(), in minutes
    users,            \* db.users: _id -> document
    subscriptions,    \* db.subscriptions: _id -> document
    notifications,    \* db.notifications, in insertion order
    mails,            \* e-mail dispatches attempted by the scan, in order
    smtp,             \* the mail channel as send_email_notification finds it
    runs,             \* number of check_renewal_notifications runs so far
    scan,             \* position of each run in progress (overlapping runs)
    streak,           \* ghost: scans run back to back with nothing in between
    password_resets,  \* db.password_resets: set of documents
    lastCall,         \* the last password-reset request and its response
    latest,           \* ghost: per email, the code stored by the last store_otp
    consumed,         \* ghost: <<email, otp>> verified since the last store_otp
    proc              \* in-flight password-reset handlers (overlapping requests)

vars == <<now, users, subscriptions, notifications, mails, smtp, runs, scan,
          streak, password_resets, lastCall, latest, consumed, proc>>

scanVars == <<subscriptions, notifications, mails, smtp, runs, scan, streak>>
otpVars  == <<password_resets, lastCall, latest, consumed, proc>>

----------------------------------------------------------------------------
(* Bounds of the model *)

MaxScanDays == 2       \* the scan clock runs over this many days
MaxRuns     == 2       \* scans per behaviour
MaxOtpNow   == 10      \* the OTP clock runs over this many minutes

----------------------------------------------------------------------------
(* Time *)

MinutesPerDay == 1440

\* requests reach the server at midnight and at 22:00 ...
ScanClock == { 0, 22 * 60 }

\* ... so the scan clock advances by 2 hours, by 22 hours or by a day
ScanSteps == { 2 * 60, 22 * 60, MinutesPerDay }

Days(d) == d * MinutesPerDay

\* target_date.replace(hour=0, minute=0, second=0, microsecond=0)
StartOfDay(t) == t - (t % MinutesPerDay)

\* a field that is absent from a document
NoDate == -1

Min(S) == CHOOSE x \in S : \A y \in S : x <= y

----------------------------------------------------------------------------
(* Users and their notification preferences *)

UserIds == 1 .. 2

EmailOf(u) == IF u = 1 THEN "alice@demo.com" ELSE "admin@demo.com"

\* User.notification_preferences: has_days is FALSE when the stored dict
\* has no "reminder_days" key, has_email likewise for "email_notifications"
DefaultPrefs ==
    [has_days |-> TRUE, reminder_days |-> <<1, 3, 7>>,
     has_email |-> TRUE, email_notifications |-> TRUE]

\* a dict given at creation that sets neither key
PartialPrefs ==
    [has_days |-> FALSE, reminder_days |-> <<>>,
     has_email |-> FALSE, email_notifications |-> FALSE]

\* preferences stored by PUT /users/me/notifications
\* (NotificationPreferences, reminder_days: list[int])
PrefInputs ==
    { [has_days |-> TRUE, reminder_days |-> <<3, 3>>,
       has_email |-> TRUE, email_notifications |-> TRUE],
      [has_days |-> TRUE, reminder_days |-> <<1, 3>>,
       has_email |-> TRUE, email_notifications |-> FALSE] }

\* list[int] accepts any integer: an entry that timedelta rejects
OverflowPrefs ==
    [has_days |-> TRUE, reminder_days |-> <<3, 1000000000>>,
     has_email |-> TRUE, email_notifications |-> TRUE]

\* prefs.get("reminder_days", [1, 3, 7])
ReminderDays(prefs) ==
    IF prefs.has_days THEN prefs.reminder_days ELSE <<1, 3, 7>>

\* variant: an absent preference counts as false
EmailEnabled_DefaultOff(prefs) ==
    IF prefs.has_email THEN prefs.email_notifications ELSE FALSE

\* prefs.get("email_notifications", True)
EmailEnabled(prefs) ==
    IF prefs.has_email THEN prefs.email_notifications ELSE TRUE

----------------------------------------------------------------------------
(* Subscriptions *)

\* renewal_date values submitted by clients when creating a subscription
RenewalInputs == { Days(3) + 600, Days(4) }

\* renewal_date values submitted when updating one (NoDate: none given).
\* The new date is later than every created one, so a subscription never
\* returns to an earlier renewal_date: the date identifies the renewal cycle.
UpdateInputs == { Days(5), NoDate }

\* _id values of db.subscriptions
SubIds == 1 .. 2

\* crud.create_subscription: the document has no last_notified field.
\* date_set_by is a ghost field: the principal whose request stored the
\* current renewal_date.
NewSubscription(owner, renewal_date) ==
    [owner_id |-> owner, renewal_date |-> renewal_date,
     last_notified |-> NoDate, date_set_by |-> owner]

\* variant: a new renewal_date also clears the marker
UpdatedSubscription_ClearMarker(doc, renewal_date) ==
    IF renewal_date = NoDate \/ renewal_date = doc.renewal_date
    THEN doc
    ELSE [doc EXCEPT !.renewal_date = renewal_date, !.last_notified = NoDate]

\* crud.update_subscription: $set of the fields that are not None
\* (renewal_date = NoDate stands for a body without renewal_date)
UpdatedSubscription(doc, renewal_date) ==
    IF renewal_date = NoDate \/ renewal_date = doc.renewal_date
    THEN doc
    ELSE [doc EXCEPT !.renewal_date = renewal_date]

\* the ghost field follows the renewal_date
DateSetBy(old, doc, principal) ==
    IF doc.renewal_date = old.renewal_date
    THEN doc
    ELSE [doc EXCEPT !.date_set_by = principal]

----------------------------------------------------------------------------
(* The mail channel: notifications.send_email_notification *)

\* "unconfigured": SMTP_USERNAME or SMTP_PASSWORD is empty (read at import);
\* "down": connecting, starttls, login or send_message raises
SmtpStates == { "unconfigured", "up", "down" }

\* the boolean it returns; every exception is caught inside
SendEmailNotification(channel) == channel = "up"

----------------------------------------------------------------------------
(* The renewal scan: notifications.check_renewal_notifications *)

\* timedelta(days=days) raises OverflowError beyond this magnitude
MaxTimedeltaDays == 999999999

TimedeltaRaises(days) == days > MaxTimedeltaDays \/ days < 0 - MaxTimedeltaDays

\* variant: the query does not filter on owner_id
MatchingSubs_AnyOwner(subs, owner, start, end) ==
    { s \in DOMAIN subs :
        /\ subs[s].renewal_date >= start
        /\ subs[s].renewal_date < end
        /\ \/ subs[s].last_notified = NoDate
           \/ subs[s].last_notified < start }

\* variant: only subscriptions without a marker match
MatchingSubs_UnsetOnly(subs, owner, start, end) ==
    { s \in DOMAIN subs :
        /\ subs[s].owner_id = owner
        /\ subs[s].renewal_date >= start
        /\ subs[s].renewal_date < end
        /\ subs[s].last_notified = NoDate }

\* db.subscriptions.find({owner_id, renewal_date in [start, end),
\*    $or: [last_notified absent, last_notified < start]})
MatchingSubs(subs, owner, start, end) ==
    { s \in DOMAIN subs :
        /\ subs[s].owner_id = owner
        /\ subs[s].renewal_date >= start
        /\ subs[s].renewal_date < end
        /\ \/ subs[s].last_notified = NoDate
           \/ subs[s].last_notified < start }

\* notifications.create_browser_notification; message stands for
\* f"{service_name} renews in {days} day(s) - ${cost}".
\* run, run_now and renewal_date are ghost fields: the run that inserted the
\* document, the `now` that run had snapshotted, and the renewal_date of the
\* subscription at that time.
CreateBrowserNotification(notifs, user_id, subscription_id, days, t, run, renewal_date, snapshot) ==
    Append(notifs,
           [user_id |-> user_id, subscription_id |-> subscription_id,
            message |-> [service |-> subscription_id, days |-> days],
            type |-> "renewal_reminder", is_read |-> FALSE,
            created_at |-> t, run |-> run, renewal_date |-> renewal_date,
            run_now |-> snapshot])

\* notifications.send_renewal_email -> send_email_notification: one
\* dispatch attempt; ok is the boolean result, which the caller drops
SendRenewalEmail(ms, u, subscription_id, days, run, channel) ==
    Append(ms, [to |-> EmailOf(u), days |-> days,
                subscription_id |-> subscription_id, run |-> run,
                ok |-> SendEmailNotification(channel)])

\* variant: the marker update of lines 178-181 is left out
ProcessSub_NoMarker(st, u, prefs, days, s, t, run) ==
    [st EXCEPT
       !.notifs = CreateBrowserNotification(st.notifs, u, s, days, t, run,
                                            st.subs[s].renewal_date, t),
       !.mails  = IF EmailEnabled(prefs)
                  THEN SendRenewalEmail(st.mails, u, s, days, run, st.smtp)
                  ELSE st.mails]

\* variant: the marker is written only after a dispatch that succeeded
ProcessSub_MarkOnSuccess(st, u, prefs, days, s, t, run) ==
    [st EXCEPT
       !.subs   = IF EmailEnabled(prefs) /\ ~SendEmailNotification(st.smtp)
                  THEN st.subs
                  ELSE [st.subs EXCEPT ![s].last_notified = t],
       !.notifs = CreateBrowserNotification(st.notifs, u, s, days, t, run,
                                            st.subs[s].renewal_date, t),
       !.mails  = IF EmailEnabled(prefs)
                  THEN SendRenewalEmail(st.mails, u, s, days, run, st.smtp)
                  ELSE st.mails]

\* body of the loop over the matched subscriptions; st holds the three
\* collections as the run has left them so far, the mail channel, and
\* whether an exception has left the function
ProcessSub(st, u, prefs, days, s, t, run) ==
    [st EXCEPT
       !.subs   = [st.subs EXCEPT ![s].last_notified = t],
       !.notifs = CreateBrowserNotification(st.notifs, u, s, days, t, run,
                                            st.subs[s].renewal_date, t),
       !.mails  = IF EmailEnabled(prefs)
                  THEN SendRenewalEmail(st.mails, u, s, days, run, st.smtp)
                  ELSE st.mails]

\* for sub_doc in subscriptions (the cursor's result, in _id order)
RECURSIVE ProcessSubs(_, _, _, _, _, _, _)
ProcessSubs(st, u, prefs, days, matched, t, run) ==
    IF matched = {} THEN st
    ELSE LET s == Min(matched)
         IN  ProcessSubs(ProcessSub(st, u, prefs, days, s, t, run),
                         u, prefs, days, matched \ {s}, t, run)

\* for days in reminder_days; no statement of the loops is inside a try,
\* so an exception of timedelta(days=days) ends the whole run
RECURSIVE ProcessOffsets(_, _, _, _, _, _)
ProcessOffsets(st, u, prefs, ds, t, run) ==
    IF ds = <<>> \/ st.raised THEN st
    ELSE IF TimedeltaRaises(Head(ds)) THEN [st EXCEPT !.raised = TRUE]
    ELSE LET days         == Head(ds)
             start_of_day == StartOfDay(t + Days(days))
             end_of_day   == start_of_day + Days(1)
             matched      == MatchingSubs(st.subs, u, start_of_day, end_of_day)
         IN  ProcessOffsets(ProcessSubs(st, u, prefs, days, matched, t, run),
                            u, prefs, Tail(ds), t, run)

\* for user_doc in users
RECURSIVE ProcessUsers(_, _, _, _, _)
ProcessUsers(st, us, udocs, t, run) ==
    IF us = {} \/ st.raised THEN st
    ELSE LET u     == Min(us)
             prefs == udocs[u].notification_preferences
         IN  ProcessUsers(ProcessOffsets(st, u, prefs, ReminderDays(prefs), t, run),
                          us \ {u}, udocs, t, run)

\* one whole run, with `now` snapshotted once at its start
ScanResult(subs, notifs, ms, udocs, t, run, channel) ==
    ProcessUsers([subs |-> subs, notifs |-> notifs, mails |-> ms,
                  smtp |-> channel, raised |-> FALSE],
                 DOMAIN udocs, udocs, t, run)

----------------------------------------------------------------------------
(* The same function, one store operation at a time *)

\* threads of the pool that runs the background tasks
Runners == 1 .. 2

\* no run in progress on the thread
IdleRun == [pc |-> "idle", now |-> NoDate, run |-> 0, u |-> 0, k |-> 0,
            matched |-> {}]

\* where the run r goes on once the documents `matched` are left in its
\* cursor: the next document, the next entry of reminder_days, the next
\* user, or the end of the function
NextPosition(r, matched, udocs) ==
    LET ds    == ReminderDays(udocs[r.u].notification_preferences)
        later == { v \in DOMAIN udocs : v > r.u }
    IN  IF matched # {}
        THEN [r EXCEPT !.pc = "insert", !.matched = matched]
        ELSE IF r.k < Len(ds)
        THEN [r EXCEPT !.pc = "find", !.k = r.k + 1, !.matched = {}]
        ELSE IF later # {}
        THEN [r EXCEPT !.pc = "find", !.u = Min(later), !.k = 1, !.matched = {}]
        ELSE IdleRun

----------------------------------------------------------------------------
(* The OTP store: auth.store_otp, auth.verify_otp, auth.reset_password *)

OTP_EXPIRE_MINUTES == 10

\* e-mail addresses submitted to the password-reset routes; the last one
\* belongs to no account
Emails == { EmailOf(u) : u \in UserIds } \cup { "nobody@demo.com" }

\* codes auth.generate_otp can draw, and codes a client can submit
OtpValues == { "111111", "222222" }

\* _id values of db.password_resets
ResetIds == 1 .. 4

\* the OTP clock advances by these many minutes
OtpSteps == { 5 }

\* crud.get_user_by_email
UserByEmail(udocs, email) == { u \in DOMAIN udocs : udocs[u].email = email }

\* variant: store_otp keeps the earlier requests of the email
DeleteMany_None(resets, email) == resets

\* db.password_resets.delete_many({"email": email})
DeleteMany(resets, email) == { r \in resets : r.email # email }

\* db.password_resets.insert_one({email, otp, expires_at, created_at})
InsertOne(resets, id, email, otp, expires_at, created_at) ==
    resets \cup { [id |-> id, email |-> email, otp |-> otp,
                   expires_at |-> expires_at, created_at |-> created_at] }

\* expires_at = datetime.utcnow() + timedelta(minutes=OTP_EXPIRE_MINUTES)
ExpiresAt(t) == t + OTP_EXPIRE_MINUTES

\* auth.store_otp, run without interruption
StoreOtp(resets, id, email, otp, t) ==
    InsertOne(DeleteMany(resets, email), id, email, otp, ExpiresAt(t), t)

\* variant: the expiry filter written with $gte
FindLive_NonStrict(resets, email, otp, t) ==
    { r \in resets : r.email = email /\ r.otp = otp /\ r.expires_at >= t }

\* the documents find_one({email, otp, expires_at: {$gt: utcnow()}}) can return
FindLive(resets, email, otp, t) ==
    { r \in resets : r.email = email /\ r.otp = otp /\ r.expires_at > t }

\* variant: the used request is not removed
DeleteOne_Keep(resets, id) == resets

\* db.password_resets.delete_one({"_id": reset_data["_id"]})
DeleteOne(resets, id) == { r \in resets : r.id # id }

\* the _id values that no stored document and no in-flight handler holds
FreeIds(resets, ps) ==
    { i \in ResetIds :
        /\ \A r \in resets : r.id # i
        /\ \A p \in DOMAIN ps : ps[p].rid # i }

\* the _id of the next inserted document
FreshId(resets, ps) == Min(FreeIds(resets, ps))

\* get_password_hash: bcrypt of the password under a random salt
PasswordHash(new_password, salt) == <<new_password, salt>>

Salts == { 0, 1 }

\* variant: the update filter does not select by email
SetPassword_AllUsers(udocs, email, hashed_password) ==
    [u \in DOMAIN udocs |-> [udocs[u] EXCEPT !.hashed_password = hashed_password]]

\* auth.reset_password: users.update_one({email}, {$set: {hashed_password}})
SetPassword(udocs, email, hashed_password) ==
    [u \in DOMAIN udocs |->
        IF udocs[u].email = email
        THEN [udocs[u] EXCEPT !.hashed_password = hashed_password]
        ELSE udocs[u]]

\* result.modified_count > 0
Modified(udocs, email, hashed_password) ==
    \E u \in DOMAIN udocs :
        udocs[u].email = email /\ udocs[u].hashed_password # hashed_password

\* a request to one of the three routes and its response (HTTP status,
\* message or detail). replaced is a ghost field: the code of the live
\* request that this forgot-password request discarded.
Call(op, email, otp, status, message, replaced) ==
    [op |-> op, email |-> email, otp |-> otp, status |-> status,
     message |-> message, replaced |-> replaced]

Response(op, email, otp, status, message) ==
    Call(op, email, otp, status, message, "")

NoCall == Response("none", "", "", 0, "")

\* forgot_password, for an address with no account
ForgotUnknown(email) ==
    Response("forgot", email, "", 200,
             "If the email exists, a password reset code has been sent")

\* forgot_password, for an address with an account; sent is the result of
\* send_password_reset_email
ForgotKnown(email, sent, replaced) ==
    IF sent
    THEN Call("forgot", email, "", 200, "Password reset code sent to your email", replaced)
    ELSE Call("forgot", email, "", 500, "Failed to send email", replaced)

\* verify_otp route
VerifyResponse(email, otp, is_valid) ==
    IF is_valid
    THEN Response("verify", email, otp, 200, "OTP verified successfully")
    ELSE Response("verify", email, otp, 400, "Invalid or expired OTP")

\* reset_password route
ResetResponse(email, otp, is_valid, success) ==
    IF ~is_valid THEN Response("reset", email, otp, 400, "Invalid or expired OTP")
    ELSE IF ~success THEN Response("reset", email, otp, 500, "Failed to reset password")
    ELSE Response("reset", email, otp, 200, "Password reset successfully")

\* the code of a live request for email, which a new store_otp discards
ReplacedCode(resets, email, t) ==
    LET live == { r \in resets : r.email = email /\ r.expires_at > t }
    IN  IF live = {} THEN "" ELSE (CHOOSE r \in live : TRUE).otp

\* the pairs of `consumed` that survive a new store_otp for email
Unconsume(pairs, email) == { c \in pairs : c[1] # email }

----------------------------------------------------------------------------
(* Initial state *)

Idle == [pc |-> "idle", op |-> "none", email |-> "", otp |-> "",
         expires_at |-> NoDate, rid |-> 0]

Procs == 1 .. 2

Init ==
    /\ now = 0
    /\ \E p \in {DefaultPrefs, PartialPrefs, OverflowPrefs} \cup PrefInputs :
         users = [u \in UserIds |->
                    [email |-> EmailOf(u), is_admin |-> (u = 2),
                     hashed_password |-> <<"initial", 0>>,
                     notification_preferences |->
                        IF u = 1 THEN p ELSE DefaultPrefs]]
    /\ subscriptions = <<>>
    /\ notifications = <<>>
    /\ mails = <<>>
    /\ smtp \in SmtpStates
    /\ runs = 0
    /\ scan = [p \in Runners |-> IdleRun]
    /\ streak = 0
    /\ password_resets = {}
    /\ lastCall = NoCall
    /\ latest = [e \in Emails |-> ""]
    /\ consumed = {}
    /\ proc = [p \in Procs |-> Idle]

----------------------------------------------------------------------------
(* Actions of the subscription and scan side *)

\* POST /subscriptions/ -> crud.create_subscription
CreateSubscription(owner, renewal_date) ==
    /\ Len(subscriptions) + 1 \in SubIds
    /\ subscriptions' = Append(subscriptions, NewSubscription(owner, renewal_date))
    /\ streak' = 0
    /\ UNCHANGED <<now, users, notifications, mails, smtp, runs, scan, otpVars>>

\* variant: the route without the permission check of lines 236-237
UpdateSubscription_AnyPrincipal(principal, s, renewal_date) ==
    /\ s \in DOMAIN subscriptions
    /\ subscriptions' = [subscriptions EXCEPT
                           ![s] = DateSetBy(@, UpdatedSubscription(@, renewal_date),
                                            principal)]
    /\ streak' = 0
    /\ UNCHANGED <<now, users, notifications, mails, smtp, runs, scan, otpVars>>

\* PUT /subscriptions/{id}: allowed for an administrator or the owner
UpdateSubscription(principal, s, renewal_date) ==
    /\ s \in DOMAIN subscriptions
    /\ users[principal].is_admin \/ subscriptions[s].owner_id = principal
    /\ subscriptions' = [subscriptions EXCEPT
                           ![s] = DateSetBy(@, UpdatedSubscription(@, renewal_date),
                                            principal)]
    /\ streak' = 0
    /\ UNCHANGED <<now, users, notifications, mails, smtp, runs, scan, otpVars>>

\* a whole run of check_renewal_notifications (runs do not overlap)
CheckRenewalNotifications ==
    /\ runs < MaxRuns
    /\ LET st == ScanResult(subscriptions, notifications, mails, users,
                            now, runs + 1, smtp)
       IN  /\ subscriptions' = st.subs
           /\ notifications' = st.notifs
           /\ mails' = st.mails
    /\ runs' = runs + 1
    /\ streak' = IF streak < 2 THEN streak + 1 ELSE 2
    /\ UNCHANGED <<now, users, smtp, scan, otpVars>>

\* time passes between requests
ScanTick(dt) ==
    /\ now + dt <= Days(MaxScanDays)
    /\ (now + dt) % MinutesPerDay \in ScanClock
    /\ now' = now + dt
    /\ streak' = 0
    /\ UNCHANGED <<users, subscriptions, notifications, mails, smtp, runs, scan,
                   otpVars>>

\* the mail server becomes unreachable, or reachable again
SmtpFlip ==
    /\ smtp # "unconfigured"
    /\ smtp' = IF smtp = "up" THEN "down" ELSE "up"
    /\ UNCHANGED <<now, users, subscriptions, notifications, mails, runs, scan,
                   streak, otpVars>>

NextScan ==
    \/ \E o \in UserIds, r \in RenewalInputs : CreateSubscription(o, r)
    \/ \E p \in UserIds, s \in SubIds, r \in UpdateInputs :
         UpdateSubscription(p, s, r)
    \/ CheckRenewalNotifications
    \/ \E dt \in ScanSteps : ScanTick(dt)

\* every stored reminder_days entry is a value timedelta accepts
NoRaise ==
    \A u \in UserIds :
      LET ds == ReminderDays(users[u].notification_preferences)
      IN  \A i \in DOMAIN ds : ~TimedeltaRaises(ds[i])

\* the mail server is configured and reachable, and no run raises
InitScan ==
    /\ Init
    /\ smtp = "up"
    /\ NoRaise

Spec == InitScan /\ [][NextScan]_vars

\* the scan with a mail channel that fails and recovers
NextMail ==
    \/ \E o \in UserIds, r \in RenewalInputs : CreateSubscription(o, r)
    \/ CheckRenewalNotifications
    \/ \E dt \in ScanSteps : ScanTick(dt)
    \/ SmtpFlip

InitMail ==
    /\ Init
    /\ NoRaise

SpecMail == InitMail /\ [][NextMail]_vars

\* the scan with a reminder_days entry that timedelta rejects
InitRaise ==
    /\ Init
    /\ smtp = "up"
    /\ ~NoRaise

SpecRaise == InitRaise /\ [][NextScan]_vars

----------------------------------------------------------------------------
(* The scan as overlapping runs: POST /notifications/check-renewals hands  *)
(* the function to a background task, which runs on a thread of the pool   *)

\* now = datetime.utcnow(); users = db.users.find()
RunStart(p) ==
    /\ scan[p].pc = "idle"
    /\ runs < MaxRuns
    /\ runs' = runs + 1
    /\ scan' = [scan EXCEPT ![p] =
                  [pc |-> "find", now |-> now, run |-> runs + 1,
                   u |-> Min(UserIds), k |-> 1, matched |-> {}]]
    /\ UNCHANGED <<now, users, subscriptions, notifications, mails, smtp,
                   streak, otpVars>>

\* timedelta(days=days), then db.subscriptions.find(...) for the entry
RunFind(p) ==
    /\ scan[p].pc = "find"
    /\ LET r  == scan[p]
           ds == ReminderDays(users[r.u].notification_preferences)
       IN  scan' = [scan EXCEPT ![p] =
                     IF r.k > Len(ds) THEN NextPosition(r, {}, users)
                     ELSE IF TimedeltaRaises(ds[r.k]) THEN IdleRun
                     ELSE LET start_of_day == StartOfDay(r.now + Days(ds[r.k]))
                              end_of_day   == start_of_day + Days(1)
                          IN  NextPosition(r, MatchingSubs(subscriptions, r.u,
                                                           start_of_day, end_of_day),
                                           users)]
    /\ UNCHANGED <<now, users, subscriptions, notifications, mails, smtp, runs,
                   streak, otpVars>>

\* variant: the marker is written where the insert belongs
RunInsert_MarkFirst(p) ==
    /\ scan[p].pc = "insert"
    /\ subscriptions' = [subscriptions EXCEPT
                           ![Min(scan[p].matched)].last_notified = scan[p].now]
    /\ scan' = [scan EXCEPT ![p].pc = "send"]
    /\ UNCHANGED <<now, users, notifications, mails, smtp, runs, streak, otpVars>>

\* create_browser_notification for the next document of the cursor
RunInsert(p) ==
    /\ scan[p].pc = "insert"
    /\ LET r  == scan[p]
           s  == Min(r.matched)
           ds == ReminderDays(users[r.u].notification_preferences)
       IN  notifications' =
             CreateBrowserNotification(notifications, r.u, s, ds[r.k], now, r.run,
                                       subscriptions[s].renewal_date, r.now)
    /\ scan' = [scan EXCEPT ![p].pc = "send"]
    /\ UNCHANGED <<now, users, subscriptions, mails, smtp, runs, streak, otpVars>>

\* if prefs.get("email_notifications", True): send_renewal_email(...)
RunSend(p) ==
    /\ scan[p].pc = "send"
    /\ LET r     == scan[p]
           prefs == users[r.u].notification_preferences
       IN  mails' = IF EmailEnabled(prefs)
                    THEN SendRenewalEmail(mails, r.u, Min(r.matched),
                                          ReminderDays(prefs)[r.k], r.run, smtp)
                    ELSE mails
    /\ scan' = [scan EXCEPT ![p].pc = "mark"]
    /\ UNCHANGED <<now, users, subscriptions, notifications, smtp, runs, streak,
                   otpVars>>

\* db.subscriptions.update_one({_id}, {$set: {last_notified: now}})
RunMark(p) ==
    /\ scan[p].pc = "mark"
    /\ LET r == scan[p]
           s == Min(r.matched)
       IN  /\ subscriptions' = [subscriptions EXCEPT ![s].last_notified = r.now]
           /\ scan' = [scan EXCEPT ![p] = NextPosition(r, r.matched \ {s}, users)]
    /\ UNCHANGED <<now, users, notifications, mails, smtp, runs, streak, otpVars>>

\* the run ends between the insert and the marker write: the worker is
\* stopped, or the template rendering or update_one raises (no statement of
\* the function is inside a try)
RunStop(p) ==
    /\ scan[p].pc \in {"send", "mark"}
    /\ scan' = [scan EXCEPT ![p] = IdleRun]
    /\ UNCHANGED <<now, users, subscriptions, notifications, mails, smtp, runs,
                   streak, otpVars>>

\* one subscription, created before the first run; days pass at any point
NextScanConc ==
    \/ \E o \in UserIds, r \in RenewalInputs :
         runs = 0 /\ subscriptions = <<>> /\ CreateSubscription(o, r)
    \/ \E p \in Runners : RunStart(p)
    \/ \E p \in Runners : RunFind(p)
    \/ \E p \in Runners : RunInsert(p)
    \/ \E p \in Runners : RunSend(p)
    \/ \E p \in Runners : RunMark(p)
    \/ \E p \in Runners : RunStop(p)
    \/ ScanTick(MinutesPerDay)

\* the accounts as crud.create_user leaves them, the mail server reachable
InitScanConc ==
    /\ InitScan
    /\ \A u \in UserIds : users[u].notification_preferences = DefaultPrefs

SpecScanConc == InitScanConc /\ [][NextScanConc]_vars

----------------------------------------------------------------------------
(* Actions of the password-reset routes, one request at a time *)

AllIdle == \A p \in Procs : proc[p].pc = "idle"

\* POST /auth/forgot-password
ForgotPassword(email, otp, sent) ==
    /\ AllIdle
    /\ IF UserByEmail(users, email) = {}
       THEN /\ lastCall' = ForgotUnknown(email)
            /\ UNCHANGED <<password_resets, latest, consumed>>
       ELSE /\ FreeIds(password_resets, proc) # {}
            /\ password_resets' = StoreOtp(password_resets,
                                            FreshId(password_resets, proc),
                                            email, otp, now)
            /\ latest' = [latest EXCEPT ![email] = otp]
            /\ consumed' = Unconsume(consumed, email)
            /\ lastCall' = ForgotKnown(email, sent,
                                        ReplacedCode(password_resets, email, now))
    /\ UNCHANGED <<now, users, scanVars, proc>>

\* variant: a refused attempt also discards the requests of the email
VerifyOtp_PurgeOnFailure(email, otp) ==
    /\ AllIdle
    /\ LET found == FindLive(password_resets, email, otp, now)
       IN  IF found = {}
           THEN /\ lastCall' = VerifyResponse(email, otp, FALSE)
                /\ password_resets' = { r \in password_resets : r.email # email }
                /\ UNCHANGED consumed
           ELSE /\ \E r \in found :
                     password_resets' = DeleteOne(password_resets, r.id)
                /\ consumed' = consumed \cup {<<email, otp>>}
                /\ lastCall' = VerifyResponse(email, otp, TRUE)
    /\ UNCHANGED <<now, users, scanVars, latest, proc>>

\* POST /auth/verify-otp
VerifyOtp(email, otp) ==
    /\ AllIdle
    /\ LET found == FindLive(password_resets, email, otp, now)
       IN  IF found = {}
           THEN /\ lastCall' = VerifyResponse(email, otp, FALSE)
                /\ UNCHANGED <<password_resets, consumed>>
           ELSE /\ \E r \in found :
                     password_resets' = DeleteOne(password_resets, r.id)
                /\ consumed' = consumed \cup {<<email, otp>>}
                /\ lastCall' = VerifyResponse(email, otp, TRUE)
    /\ UNCHANGED <<now, users, scanVars, latest, proc>>

\* POST /auth/reset-password
ResetPassword(email, otp, new_password, salt) ==
    /\ AllIdle
    /\ LET found  == FindLive(password_resets, email, otp, now)
           hashed == PasswordHash(new_password, salt)
       IN  IF found = {}
           THEN /\ lastCall' = ResetResponse(email, otp, FALSE, FALSE)
                /\ UNCHANGED <<password_resets, consumed, users>>
           ELSE /\ \E r \in found :
                     password_resets' = DeleteOne(password_resets, r.id)
                /\ consumed' = consumed \cup {<<email, otp>>}
                /\ users' = SetPassword(users, email, hashed)
                /\ lastCall' = ResetResponse(email, otp, TRUE,
                                             Modified(users, email, hashed))
    /\ UNCHANGED <<now, scanVars, latest, proc>>

\* time passes between requests
OtpTick(dt) ==
    /\ AllIdle
    /\ now + dt <= MaxOtpNow
    /\ now' = now + dt
    /\ lastCall' = NoCall
    /\ UNCHANGED <<users, scanVars, password_resets, latest, consumed, proc>>

NextOtp ==
    \/ \E e \in Emails, c \in OtpValues, sent \in BOOLEAN : ForgotPassword(e, c, sent)
    \/ \E e \in Emails, c \in OtpValues : VerifyOtp(e, c)
    \/ \E e \in Emails, c \in OtpValues, salt \in Salts :
         ResetPassword(e, c, "new-password", salt)
    \/ \E dt \in OtpSteps : OtpTick(dt)

\* the accounts as crud.create_user leaves them
InitOtp ==
    /\ Init
    /\ smtp = "up"
    /\ \A u \in UserIds : users[u].notification_preferences = DefaultPrefs

SpecOtp == InitOtp /\ [][NextOtp]_vars

----------------------------------------------------------------------------
(* The password-reset routes as overlapping requests: each store
   operation is one step, and the requests of several server processes
   interleave between them *)

\* addresses the overlapping requests are made for
ConcEmails == { EmailOf(1) }

Busy(p, pc, op, email, otp, expires_at, rid) ==
    [proc EXCEPT ![p] = [pc |-> pc, op |-> op, email |-> email, otp |-> otp,
                         expires_at |-> expires_at, rid |-> rid]]

Done(p) == [proc EXCEPT ![p] = Idle]

\* forgot_password up to and including store_otp's delete_many
FpDelete(p, email, otp) ==
    /\ proc[p].pc = "idle"
    /\ IF UserByEmail(users, email) = {}
       THEN /\ lastCall' = ForgotUnknown(email)
            /\ UNCHANGED <<password_resets, proc>>
       ELSE /\ password_resets' = DeleteMany(password_resets, email)
            /\ proc' = Busy(p, "insert", "forgot", email, otp, ExpiresAt(now), 0)
            /\ UNCHANGED lastCall
    /\ UNCHANGED <<now, users, scanVars, latest, consumed>>

\* store_otp's insert_one, then send_password_reset_email and the response
FpInsert(p, sent) ==
    /\ proc[p].pc = "insert"
    /\ FreeIds(password_resets, proc) # {}
    /\ password_resets' = InsertOne(password_resets,
                                    FreshId(password_resets, proc),
                                    proc[p].email, proc[p].otp,
                                    proc[p].expires_at, now)
    /\ latest' = [latest EXCEPT ![proc[p].email] = proc[p].otp]
    /\ consumed' = Unconsume(consumed, proc[p].email)
    /\ lastCall' = ForgotKnown(proc[p].email, sent, "")
    /\ proc' = Done(p)
    /\ UNCHANGED <<now, users, scanVars>>

\* verify_otp's find_one, in the verify-otp or the reset-password route
VoFind(p, op, email, otp) ==
    /\ proc[p].pc = "idle"
    /\ LET found == FindLive(password_resets, email, otp, now)
       IN  IF found = {}
           THEN /\ lastCall' = IF op = "verify"
                               THEN VerifyResponse(email, otp, FALSE)
                               ELSE ResetResponse(email, otp, FALSE, FALSE)
                /\ UNCHANGED proc
           ELSE /\ \E r \in found :
                     proc' = Busy(p, "delete", op, email, otp, NoDate, r.id)
                /\ UNCHANGED lastCall
    /\ UNCHANGED <<now, users, scanVars, password_resets, latest, consumed>>

\* verify_otp's delete_one; the verify-otp route then responds
VoDelete(p) ==
    /\ proc[p].pc = "delete"
    /\ password_resets' = DeleteOne(password_resets, proc[p].rid)
    /\ consumed' = consumed \cup {<<proc[p].email, proc[p].otp>>}
    /\ IF proc[p].op = "verify"
       THEN /\ lastCall' = VerifyResponse(proc[p].email, proc[p].otp, TRUE)
            /\ proc' = Done(p)
       ELSE /\ proc' = [proc EXCEPT ![p].pc = "update", ![p].rid = 0]
            /\ UNCHANGED lastCall
    /\ UNCHANGED <<now, users, scanVars, latest>>

\* auth.reset_password's update_one and the reset-password response
RpUpdate(p, new_password, salt) ==
    /\ proc[p].pc = "update"
    /\ LET hashed == PasswordHash(new_password, salt)
       IN  /\ users' = SetPassword(users, proc[p].email, hashed)
           /\ lastCall' = ResetResponse(proc[p].email, proc[p].otp, TRUE,
                                        Modified(users, proc[p].email, hashed))
    /\ proc' = Done(p)
    /\ UNCHANGED <<now, scanVars, password_resets, latest, consumed>>

\* time passes, also while requests are in flight
ConcTick(dt) ==
    /\ now + dt <= MaxOtpNow
    /\ now' = now + dt
    /\ UNCHANGED <<users, scanVars, otpVars>>

NextOtpConc ==
    \/ \E p \in Procs, e \in ConcEmails, c \in OtpValues : FpDelete(p, e, c)
    \/ \E p \in Procs, sent \in BOOLEAN : FpInsert(p, sent)
    \/ \E p \in Procs, op \in {"verify", "reset"}, e \in ConcEmails, c \in OtpValues :
         VoFind(p, op, e, c)
    \/ \E p \in Procs : VoDelete(p)
    \/ \E p \in Procs, salt \in Salts : RpUpdate(p, "new-password", salt)
    \/ \E dt \in OtpSteps : ConcTick(dt)

SpecOtpConc == InitOtp /\ [][NextOtpConc]_vars

----------------------------------------------------------------------------
(* Properties of the renewal scan *)

\* the Notification documents of subscription s naming offset d
NotesOf(notifs, s, d) ==
    { i \in DOMAIN notifs :
        notifs[i].subscription_id = s /\ notifs[i].message.days = d }

\* the offsets the stored documents can name
AllOffsets == {1, 3, 7}

\* C1: when the scan is run twice in immediate succession with the same
\* `now` and no other store change in between, a subscription/offset that
\* received a Notification in the first run receives none in the second.
C1_ScanIdempotent ==
    streak >= 2 =>
        \A s \in DOMAIN subscriptions, d \in AllOffsets :
            (\E i \in NotesOf(notifications, s, d) : notifications[i].run = runs - 1)
                => ~ \E j \in NotesOf(notifications, s, d) : notifications[j].run = runs

\* C2: across any sequence of non-overlapping runs, at most one Notification
\* is ever created per (subscription, reminder offset) pair while the
\* subscription's renewal_date stays unchanged.
C2_AtMostOncePerOffset ==
    \A s \in DOMAIN subscriptions, d \in AllOffsets :
        \A i, j \in NotesOf(notifications, s, d) :
            notifications[i].renewal_date = notifications[j].renewal_date => i = j

\* the entries of the owner's reminder list whose window, computed from the
\* snapshot t, holds the renewal date of subscription s
WindowHits(s, t) ==
    LET ds == ReminderDays(users[subscriptions[s].owner_id].notification_preferences)
    IN  { k \in DOMAIN ds :
            /\ subscriptions[s].renewal_date >= StartOfDay(t + Days(ds[k]))
            /\ subscriptions[s].renewal_date < StartOfDay(t + Days(ds[k])) + Days(1) }

\* the Notification documents a scan step inserts for subscription s
NewNotes(s) ==
    { i \in DOMAIN notifications' :
        i > Len(notifications) /\ notifications'[i].subscription_id = s }

\* what the scan step leaves for an unmarked subscription in a window:
\* `count` reminders to its owner naming the offset, and the marker = now
ScanOutcome(s, count) ==
    /\ Cardinality(NewNotes(s)) = count
    /\ \A i \in NewNotes(s) :
         /\ notifications'[i].type = "renewal_reminder"
         /\ notifications'[i].is_read = FALSE
         /\ notifications'[i].user_id = subscriptions[s].owner_id
         /\ \E k \in WindowHits(s, now) :
              notifications'[i].message.days =
                ReminderDays(users[subscriptions[s].owner_id].notification_preferences)[k]
    /\ subscriptions'[s].last_notified = now

----------------------------------------------------------------------------
(* Properties of the password-reset flow, one request at a time *)

\* the call answered in this step ran auth.verify_otp (both the verify-otp
\* and the reset-password route do) and it returned True
IsValid(call) == call.op \in {"verify", "reset"} /\ call.status # 400

IsInvalid(call) == call.op \in {"verify", "reset"} /\ call.status = 400

\* C4: OTP single use. Once verify_otp(email, code) has returned valid,
\* every later verify_otp(email, code) with that code returns invalid,
\* unless a new code was stored for that email in between.
C4_SingleUse ==
    [][(/\ lastCall'.op \in {"verify", "reset"}
        /\ <<lastCall'.email, lastCall'.otp>> \in consumed)
            => IsInvalid(lastCall')]_vars

\* a code that was verified, and not reissued since, has just been refused
C4_Witness ==
    /\ IsInvalid(lastCall)
    /\ lastCall.op = "verify"
    /\ <<lastCall.email, lastCall.otp>> \in consumed
    /\ latest[lastCall.email] = lastCall.otp

\* C5: OTP supersession. Only the most recently stored code of an email
\* validates: after a second store_otp, verify_otp with the earlier
\* (different) code returns invalid although it has not expired.
C5_Supersession ==
    [][IsValid(lastCall') => lastCall'.otp = latest[lastCall'.email]]_vars

\* a forgot-password request has just replaced a live code by a different
\* one: the old code finds nothing, the new one is the only request stored
C5_Witness ==
    /\ lastCall.op = "forgot"
    /\ lastCall.replaced # ""
    /\ lastCall.replaced # latest[lastCall.email]
    /\ FindLive(password_resets, lastCall.email, lastCall.replaced, now) = {}
    /\ FindLive(password_resets, lastCall.email, latest[lastCall.email], now) # {}
    /\ Cardinality({ r \in password_resets : r.email = lastCall.email }) = 1

\* C7: OTP expiry. A code stored at time t expires at t + 10 minutes;
\* verify_otp with the right email and code returns valid exactly when the
\* request is still stored and now < t + 10 (invalid from the expiry on).
C7_Expiry ==
    [][lastCall'.op \in {"verify", "reset"} =>
        (IsValid(lastCall') <=>
            \E r \in password_resets :
                /\ r.email = lastCall'.email
                /\ r.otp = lastCall'.otp
                /\ now < r.created_at + OTP_EXPIRE_MINUTES)]_vars

\* the stored code has just been refused at the very minute it expires
C7_Witness ==
    /\ IsInvalid(lastCall)
    /\ \E r \in password_resets :
         /\ r.email = lastCall.email
         /\ r.otp = lastCall.otp
         /\ now = r.created_at + OTP_EXPIRE_MINUTES

\* C8: the reset flow as three calls on one code. After a forgot-password
\* request and a successful verify-otp, reset-password with the same code,
\* before its expiry, succeeds and replaces the credential.
C8_ThreeCallFlow ==
    [][(/\ lastCall.op = "verify"
        /\ lastCall.status = 200
        /\ lastCall'.op = "reset"
        /\ lastCall'.email = lastCall.email
        /\ lastCall'.otp = lastCall.otp)
            => (/\ lastCall'.status = 200
                /\ \E u \in UserByEmail(users, lastCall.email) :
                     users'[u].hashed_password # users[u].hashed_password)]_vars

Credentials(udocs) == [u \in DOMAIN udocs |-> udocs[u].hashed_password]

\* C9: when reset-password reports failure no credential changes, and a
\* credential changes only in a reset-password call that consumed a live
\* request matching the email and the code.
C9_NoMutationOnFailure ==
    [][/\ (lastCall'.op = "reset" /\ lastCall'.status # 200)
            => Credentials(users') = Credentials(users)
       /\ \A u \in UserIds :
            users'[u].hashed_password # users[u].hashed_password
                => /\ lastCall'.op = "reset"
                   /\ lastCall'.status = 200
                   /\ lastCall'.email = users[u].email
                   /\ \E r \in FindLive(password_resets, users[u].email,
                                        lastCall'.otp, now) :
                        r \notin password_resets']_vars

\* reset-password has just failed on a wrong code while the right one is
\* live, and the account still has the credential it was created with
C9_Witness ==
    /\ lastCall.op = "reset"
    /\ lastCall.status = 400
    /\ lastCall.otp # latest[lastCall.email]
    /\ FindLive(password_resets, lastCall.email, latest[lastCall.email], now) # {}
    /\ \E u \in UserByEmail(users, lastCall.email) :
         users[u].hashed_password = <<"initial", 0>>

\* C10: the response of forgot-password (status and message) is the same
\* whether or not the address belongs to an account, whatever the outcome
\* of the e-mail dispatch: it is the response given for an unknown address.
C10_NoEnumeration ==
    lastCall.op = "forgot" =>
        /\ lastCall.status = ForgotUnknown(lastCall.email).status
        /\ lastCall.message = ForgotUnknown(lastCall.email).message

----------------------------------------------------------------------------
(* Properties of the password-reset flow under overlapping requests *)

\* the live (stored, unexpired) requests of an email
LiveRequests(email) ==
    { r \in password_resets : r.email = email /\ r.expires_at > now }

\* C6: for every email the password_resets store holds at most one live
\* request, in every reachable state, also when two store_otp calls for
\* the same email interleave their delete-then-insert steps.
C6_OneLiveRequest ==
    \A e \in Emails : Cardinality(LiveRequests(e)) <= 1

----------------------------------------------------------------------------
(* Properties of the scan's e-mail dispatch *)

\* the dispatches a scan step attempts for subscription s
NewMails(s) ==
    { k \in DOMAIN mails' :
        k > Len(mails) /\ mails'[k].subscription_id = s }

\* C11: when the mail channel is unconfigured or unreachable during a run,
\* every dispatch of the run returns false and the run goes on: the
\* Notification documents it inserted (and all earlier ones) are in the
\* store, the marker of each notified subscription is the run's `now`, one
\* dispatch at most was attempted per Notification, and no later step
\* attempts a dispatch for a Notification of an earlier run.
C11_DispatchFailureKept ==
    [][/\ SubSeq(mails', 1, Len(mails)) = mails
       /\ \A k \in DOMAIN mails' : k > Len(mails) => mails'[k].run = runs'
       /\ (runs' = runs + 1 /\ smtp # "up") =>
            /\ SubSeq(notifications', 1, Len(notifications)) = notifications
            /\ \A k \in DOMAIN mails' : k > Len(mails) => ~mails'[k].ok
            /\ \A s \in DOMAIN subscriptions :
                 /\ Cardinality(NewMails(s)) <= Cardinality(NewNotes(s))
                 /\ NewNotes(s) # {} => subscriptions'[s].last_notified = now
                 /\ (subscriptions[s].last_notified = NoDate /\ WindowHits(s, now) # {})
                      => NewNotes(s) # {}]_vars

\* a dispatch of an earlier run failed; the Notification of that run is in
\* the store, the subscription is marked, and a later run has ended without
\* another dispatch for it
C11_Witness ==
    \E k \in DOMAIN mails :
        /\ ~mails[k].ok
        /\ mails[k].run < runs
        /\ subscriptions[mails[k].subscription_id].last_notified # NoDate
        /\ \E i \in DOMAIN notifications :
             /\ notifications[i].run = mails[k].run
             /\ notifications[i].subscription_id = mails[k].subscription_id
             /\ notifications[i].message.days = mails[k].days
        /\ \A j \in DOMAIN mails :
             mails[j].subscription_id = mails[k].subscription_id => j = k

----------------------------------------------------------------------------
(* Properties of a run in which a statement raises *)

\* like WindowHits, over the entries that timedelta accepts
ValidHits(s, t) ==
    LET ds == ReminderDays(users[subscriptions[s].owner_id].notification_preferences)
    IN  { k \in DOMAIN ds :
            /\ ~TimedeltaRaises(ds[k])
            /\ subscriptions[s].renewal_date >= StartOfDay(t + Days(ds[k]))
            /\ subscriptions[s].renewal_date < StartOfDay(t + Days(ds[k])) + Days(1) }

\* C12: a failure while one user or subscription is processed does not stop
\* the run: every other unmarked subscription whose renewal_date lies in a
\* window of its owner still gets its Notification and its marker.
C12_FailureIsolation ==
    [][runs' = runs + 1 =>
        \A s \in DOMAIN subscriptions :
            (subscriptions[s].last_notified = NoDate /\ ValidHits(s, now) # {})
                => /\ NewNotes(s) # {}
                   /\ subscriptions'[s].last_notified = now]_vars

----------------------------------------------------------------------------
(* Properties of the scan's selection of subscriptions *)

\* subscription s renews on the third day after t, its owner's offsets are
\* [1, 3, 7], and its marker was written 2 hours before the day of t began
MarkedLastEvening(s, t) ==
    /\ ReminderDays(users[subscriptions[s].owner_id].notification_preferences)
         = <<1, 3, 7>>
    /\ subscriptions[s].renewal_date >= StartOfDay(t + Days(3))
    /\ subscriptions[s].renewal_date < StartOfDay(t + Days(3)) + Days(1)
    /\ subscriptions[s].last_notified = StartOfDay(t) - 2 * 60

----------------------------------------------------------------------------
(* Properties of the subscription routes *)

\* C14 as stated: only the owning user changes a subscription's
\* renewal_date: no request of another user or of an administrator does,
\* and no scan run does.
C14_OwnerOnly ==
    [][\A s \in DOMAIN subscriptions :
         subscriptions'[s].renewal_date # subscriptions[s].renewal_date =>
            /\ runs' = runs
            /\ subscriptions'[s].date_set_by = subscriptions[s].owner_id]_vars

\* C14 as amended: a subscription's renewal_date is changed only by a
\* request of its owner or of an administrator: no request of any other
\* user changes it, and no scan run does.
C14_OwnerOrAdmin ==
    [][\A s \in DOMAIN subscriptions :
         subscriptions'[s].renewal_date # subscriptions[s].renewal_date =>
            /\ runs' = runs
            /\ \/ subscriptions'[s].date_set_by = subscriptions[s].owner_id
               \/ users[subscriptions'[s].date_set_by].is_admin]_vars

\* the administrator has moved the renewal_date of another user's
\* subscription, which a scan had notified before
C14_Witness ==
    \E s \in DOMAIN subscriptions :
        /\ subscriptions[s].date_set_by # subscriptions[s].owner_id
        /\ users[subscriptions[s].date_set_by].is_admin
        /\ subscriptions[s].renewal_date \notin RenewalInputs
        /\ subscriptions[s].last_notified # NoDate


\* last_notified of subscription s as the query that led to the new
\* Notification i read it: the run's own marker if the run had already
\* notified s, the stored one otherwise
MarkerAtQuery(s, i) ==
    IF \E j \in NewNotes(s) : j < i THEN now ELSE subscriptions[s].last_notified

\* C15: every Notification a run creates refers to a subscription that, when
\* queried, was owned by the notified user, had its renewal_date in
\* [startOfDay(now+d), startOfDay(now+d) + 1 day) for an offset d of that
\* user, and had last_notified unset or strictly before that startOfDay; the
\* run creates no Notification and writes no last_notified for any other
\* subscription, and changes nothing else of a subscription.
C15_OnlyEligibleNotified ==
    [][runs' = runs + 1 =>
        /\ \A i \in DOMAIN notifications' :
             i > Len(notifications) =>
               LET n     == notifications'[i]
                   s     == n.subscription_id
                   d     == n.message.days
                   ds    == ReminderDays(users[n.user_id].notification_preferences)
                   start == StartOfDay(now + Days(d))
               IN  /\ s \in DOMAIN subscriptions
                   /\ subscriptions[s].owner_id = n.user_id
                   /\ \E k \in DOMAIN ds : ds[k] = d
                   /\ subscriptions[s].renewal_date >= start
                   /\ subscriptions[s].renewal_date < start + Days(1)
                   /\ \/ MarkerAtQuery(s, i) = NoDate
                      \/ MarkerAtQuery(s, i) < start
        /\ DOMAIN subscriptions' = DOMAIN subscriptions
        /\ \A s \in DOMAIN subscriptions :
             IF NewNotes(s) = {}
             THEN subscriptions'[s] = subscriptions[s]
             ELSE subscriptions'[s] = [subscriptions[s] EXCEPT !.last_notified = now]]_vars

\* a run has just notified one subscription and left another one, which is
\* in no window of its owner, without Notification and without marker
C15_Witness ==
    /\ streak = 1
    /\ \E s1, s2 \in DOMAIN subscriptions :
         /\ \E i \in DOMAIN notifications :
              /\ notifications[i].run = runs
              /\ notifications[i].subscription_id = s1
         /\ subscriptions[s1].last_notified = now
         /\ subscriptions[s2].owner_id # subscriptions[s1].owner_id
         /\ subscriptions[s2].last_notified = NoDate
         /\ \A j \in DOMAIN notifications : notifications[j].subscription_id # s2


\* C16: a subscription that a run notified for offset d1 (its marker is that
\* run's `now`) is notified again by a later run on the day matching a
\* smaller offset d2 of its owner, its renewal_date being unchanged: the
\* earlier marker is strictly before the start of the renewal day.
C16_RenotifiedAcrossOffsets ==
    [][runs' = runs + 1 =>
        \A s \in DOMAIN subscriptions, k \in DOMAIN notifications :
            LET ds == ReminderDays(users[subscriptions[s].owner_id].notification_preferences)
            IN  \A h \in WindowHits(s, now) :
                  ( /\ notifications[k].subscription_id = s
                    /\ notifications[k].renewal_date = subscriptions[s].renewal_date
                    /\ notifications[k].created_at = subscriptions[s].last_notified
                    /\ notifications[k].message.days > ds[h] )
                  => /\ subscriptions[s].last_notified
                          < StartOfDay(subscriptions[s].renewal_date)
                     /\ \E i \in NewNotes(s) : notifications'[i].message.days = ds[h]
                     /\ subscriptions'[s].last_notified = now]_vars

\* a subscription holds a reminder for offset 3 from an earlier run and one
\* for offset 1 from the run that has just ended, for the same renewal_date
C16_Witness ==
    /\ streak = 1
    /\ \E i, j \in DOMAIN notifications :
         /\ notifications[i].subscription_id = notifications[j].subscription_id
         /\ notifications[i].renewal_date = notifications[j].renewal_date
         /\ notifications[i].run < notifications[j].run
         /\ notifications[j].run = runs
         /\ notifications[i].message.days > notifications[j].message.days
         /\ notifications[i].created_at < notifications[j].created_at
         /\ subscriptions[notifications[j].subscription_id].last_notified = now


C20_OnlyScanWritesMarker ==
    [][/\ \A s \in DOMAIN subscriptions' :
            s \notin DOMAIN subscriptions => subscriptions'[s].last_notified = NoDate
       /\ \A s \in DOMAIN subscriptions :
            /\ s \in DOMAIN subscriptions'
            /\ subscriptions'[s].last_notified # subscriptions[s].last_notified
                 => runs' = runs + 1
            /\ subscriptions'[s].renewal_date # subscriptions[s].renewal_date
                 => subscriptions'[s].last_notified = subscriptions[s].last_notified]_vars

\* a subscription that a run had marked has been given a new renewal_date
\* and still carries the marker of that run
C20_Witness ==
    \E s \in DOMAIN subscriptions :
        /\ subscriptions[s].renewal_date \notin RenewalInputs
        /\ subscriptions[s].last_notified # NoDate
        /\ \E i \in DOMAIN notifications :
             /\ notifications[i].subscription_id = s
             /\ notifications[i].created_at = subscriptions[s].last_notified
             /\ notifications[i].renewal_date # subscriptions[s].renewal_date
        /\ \E s2 \in DOMAIN subscriptions :
             s2 > s /\ subscriptions[s2].last_notified = NoDate

----------------------------------------------------------------------------
(* Properties of overlapping and of serialized runs *)

\* C17, the interleaving: two overlapping runs have both read the same
\* unmarked subscription for the same offset, both have inserted their
\* Notification, and neither has written the marker yet.
C17_OverlapDuplicate ==
    \E s \in DOMAIN subscriptions :
        /\ subscriptions[s].last_notified = NoDate
        /\ \A p \in Runners :
             /\ scan[p].pc = "mark"
             /\ Min(scan[p].matched) = s
             /\ scan[p].k = scan[1].k
             /\ \E i \in DOMAIN notifications :
                  /\ notifications[i].run = scan[p].run
                  /\ notifications[i].subscription_id = s
        /\ scan[1].run # scan[2].run

\* C17, the serialized case: when runs do not overlap, no two runs create a
\* Notification for the same subscription and offset from the same `now`
\* and the same renewal_date: the second run finds the marker of the first.
C17_SerializedNoDuplicate ==
    \A i, j \in DOMAIN notifications :
        ( /\ notifications[i].subscription_id = notifications[j].subscription_id
          /\ notifications[i].message.days = notifications[j].message.days
          /\ notifications[i].renewal_date = notifications[j].renewal_date
          /\ notifications[i].created_at = notifications[j].created_at )
        => notifications[i].run = notifications[j].run

----------------------------------------------------------------------------
(* Properties of code consumption under overlapping requests *)

\* C18: of the overlapping verify-otp and reset-password requests that
\* present the same live code for the same email, at most one gets "valid":
\* no two handlers are past the find_one of verify_otp with the same stored
\* request (a handler at that point deletes it and returns True whatever
\* the delete finds).
C18_SingleUseConcurrent ==
    \A p, q \in Procs :
        ( /\ p # q
          /\ proc[p].pc = "delete"
          /\ proc[q].pc = "delete"
          /\ proc[p].email = proc[q].email
          /\ proc[p].otp = proc[q].otp )
        => proc[p].rid # proc[q].rid

----------------------------------------------------------------------------
(* Frame of the verify-otp route *)

\* the stored requests of email with code otp that have not expired at t
Matching(email, otp, t) ==
    { r \in password_resets :
        r.email = email /\ r.otp = otp /\ t < r.expires_at }

\* C21: a verify_otp call that returns invalid (from the verify-otp or the
\* reset-password route) leaves password_resets and every credential as
\* they were, and a call with a code that matches no live request of the
\* email returns invalid; so a live request survives the wrong attempts,
\* and a call with its code before its expiry returns valid; no verify_otp
\* call, valid or not, removes a request of another email.
C21_InvalidVerifyFrame ==
    [][lastCall'.op \in {"verify", "reset"} =>
        /\ IsInvalid(lastCall') =>
             /\ password_resets' = password_resets
             /\ Credentials(users') = Credentials(users)
        /\ Matching(lastCall'.email, lastCall'.otp, now) = {}
             => IsInvalid(lastCall')
        /\ Matching(lastCall'.email, lastCall'.otp, now) # {}
             => IsValid(lastCall')
        /\ \A r \in password_resets :
             r.email # lastCall'.email => r \in password_resets']_vars

\* a wrong code has just been refused for an email whose request is live
\* and still stored with the code last issued, next to a stored request of
\* another email
C21_Witness ==
    /\ lastCall.op = "verify"
    /\ IsInvalid(lastCall)
    /\ latest[lastCall.email] # ""
    /\ lastCall.otp # latest[lastCall.email]
    /\ Matching(lastCall.email, latest[lastCall.email], now) # {}
    /\ \E r \in password_resets : r.email # lastCall.email

----------------------------------------------------------------------------
(* Order of the steps on one subscription, and runs that stop half-way *)

\* the Notification documents a run with snapshot t has inserted for s
NotesOfRun(notifs, s, t) ==
    { i \in DOMAIN notifs :
        notifs[i].subscription_id = s /\ notifs[i].run_now = t }

\* every marker is the `now` of a run that has inserted a Notification for
\* the subscription
MarkedHaveNote ==
    \A s \in DOMAIN subscriptions :
        subscriptions[s].last_notified # NoDate
            => NotesOfRun(notifications, s, subscriptions[s].last_notified) # {}

\* C22: on one subscription the run first inserts the Notification, then
\* attempts the dispatch, and writes last_notified last. So in every state
\* a subscription whose last_notified is some run's `now` has a Notification
\* inserted by that run; a run that stops between the insert and the marker
\* write leaves its Notification in the store and the subscription as it
\* was, unmarked; and the next run that queries the window of an unmarked
\* subscription reads it and inserts a Notification for it again.
C22_InsertDispatchMark ==
    [][/\ \A k \in DOMAIN mails' :
            k > Len(mails) =>
              \E i \in DOMAIN notifications :
                  /\ notifications[i].run = mails'[k].run
                  /\ notifications[i].subscription_id = mails'[k].subscription_id
                  /\ notifications[i].message.days = mails'[k].days
       /\ \A s \in DOMAIN subscriptions :
            subscriptions'[s].last_notified # subscriptions[s].last_notified =>
              \E i \in NotesOfRun(notifications, s, subscriptions'[s].last_notified) :
                  EmailEnabled(users[subscriptions[s].owner_id].notification_preferences)
                    => \E k \in DOMAIN mails :
                          /\ mails[k].run = notifications[i].run
                          /\ mails[k].subscription_id = s
       /\ MarkedHaveNote'
       /\ \A p \in Runners :
            (scan[p].pc = "send" /\ scan'[p].pc = "idle") =>
              /\ subscriptions' = subscriptions
              /\ notifications' = notifications
              /\ \E i \in DOMAIN notifications :
                   /\ notifications[i].run = scan[p].run
                   /\ notifications[i].subscription_id = Min(scan[p].matched)
       /\ \A p \in Runners :
            (scan[p].pc = "find" /\ scan'[p] # scan[p]) =>
              LET r  == scan[p]
                  ds == ReminderDays(users[r.u].notification_preferences)
              IN  \A s \in DOMAIN subscriptions :
                    ( /\ subscriptions[s].owner_id = r.u
                      /\ subscriptions[s].last_notified = NoDate
                      /\ subscriptions[s].renewal_date >= StartOfDay(r.now + Days(ds[r.k]))
                      /\ subscriptions[s].renewal_date
                           < StartOfDay(r.now + Days(ds[r.k])) + Days(1) )
                    => /\ scan'[p].pc = "insert"
                       /\ s \in scan'[p].matched
       /\ \A p \in Runners :
            (scan[p].pc = "insert" /\ scan'[p] # scan[p]) =>
              /\ Len(notifications') = Len(notifications) + 1
              /\ notifications'[Len(notifications')].subscription_id = Min(scan[p].matched)
              /\ notifications'[Len(notifications')].run = scan[p].run
              /\ subscriptions' = subscriptions
              /\ mails' = mails]_vars

\* a run has inserted a Notification for a subscription and has ended
\* without writing the marker; a later run has read the subscription, still
\* unmarked, and has inserted a second Notification for it
C22_Witness ==
    \E i, j \in DOMAIN notifications, p \in Runners :
        LET s == notifications[i].subscription_id
        IN  /\ notifications[j].subscription_id = s
            /\ notifications[i].run < notifications[j].run
            /\ notifications[i].run_now < notifications[j].run_now
            /\ \A q \in Runners : scan[q].run # notifications[i].run
            /\ scan[p].run = notifications[j].run
            /\ scan[p].pc \in {"send", "mark"}
            /\ Min(scan[p].matched) = s
            /\ subscriptions[s].last_notified = NoDate

====
